---- MODULE Spec2Model ----
(***************************************************************************)
(* Shibboleth remote-user authentication for Django:                       *)
(*   shibboleth/middleware.py  ShibbolethRemoteUserMiddleware              *)
(*   shibboleth/backends.py    ShibbolethRemoteUserBackend                 *)
(* Each client (browser session) sends requests one after the other; the   *)
(* requests of different clients run concurrently and meet only in the     *)
(* user table.  A request is cut into steps at its database accesses.      *)
(***************************************************************************)
EXTENDS Integers, Sequences, FiniteSets, TLC

\* ------------------------------------------------------------------ bounds
NumNames == 2      \* distinct user names u1..uN (each also arrives as U1..UN)
NumMails == 2      \* distinct mail addresses m1..mN
NumProcs == 2      \* clients whose requests run concurrently
MaxMapLen == 2     \* entries of an attribute mapping given to parse_attributes

\* ------------------------------------------------------------------ values
\* Python's None: the value of meta.get(header, None) for a header that is
\* not in request.META.  No header carries this string.
None == "None"

Lower(i) == "u" \o ToString(i)
Upper(i) == "U" \o ToString(i)
Mail(j) == "m" \o ToString(j)
Names == 1..NumNames
Mails == 1..NumMails
Procs == 1..NumProcs

\* RemoteUserBackend.clean_username, the overridable normalisation of the
\* remote user name; the deployment modelled here lower-cases it.
clean_username(username) ==
    IF \E i \in Names : username = Upper(i)
    THEN Lower(CHOOSE i \in Names : username = Upper(i))
    ELSE username

\* ------------------------------------------------------------ configuration
\* self.header of RemoteUserMiddleware
header == "REMOTE_USER"

\* SHIBBOLETH_ATTRIBUTE_MAP (testsettings.py), header -> (required, name),
\* in iteration order; the entries that name a User field, and the optional one.
SHIB_ATTRIBUTE_MAP ==
    << [header |-> "Shibboleth-mail", required |-> TRUE, name |-> "email"],
       [header |-> "Shibboleth-eppn", required |-> TRUE, name |-> "username"],
       [header |-> "Shibboleth-schoolBarCode", required |-> FALSE, name |-> "barcode"] >>

\* [x.name for x in self.User._meta.get_fields()] of django.contrib.auth's User
field_names ==
    {"id", "password", "last_login", "is_superuser", "username", "first_name",
     "last_name", "email", "is_staff", "is_active", "date_joined"}

\* ------------------------------------------------------- parse_attributes
\* `not value or value == ''`
is_absent(value) == value = None \/ value = ""

\* shib_attrs[name] = value
dict_set(d, k, v) == [n \in (DOMAIN d) \cup {k} |-> IF n = k THEN v ELSE d[n]]

\* parse_entry with `error = required` in place of `if required: error = True`
parse_entry_resets(acc, entry, meta) ==
    LET value == meta[entry.header]
    IN  [shib_attrs |-> dict_set(acc.shib_attrs, entry.name, value),
         error |-> is_absent(value) /\ entry.required]

\* parse_entry that stores a name only when its header has a value
parse_entry_skips(acc, entry, meta) ==
    LET value == meta[entry.header]
    IN  [shib_attrs |-> IF is_absent(value) THEN acc.shib_attrs
                        ELSE dict_set(acc.shib_attrs, entry.name, value),
         error |-> IF is_absent(value) /\ entry.required THEN TRUE ELSE acc.error]

\* one iteration of the loop over SHIB_ATTRIBUTE_MAP.items()
parse_entry(acc, entry, meta) ==
    LET value == meta[entry.header]
    IN  [shib_attrs |-> dict_set(acc.shib_attrs, entry.name, value),
         error |-> IF is_absent(value) /\ entry.required THEN TRUE ELSE acc.error]

RECURSIVE parse_loop(_, _, _, _)
parse_loop(map, meta, i, acc) ==
    IF i > Len(map) THEN acc
    ELSE parse_loop(map, meta, i + 1, parse_entry(acc, map[i], meta))

\* parse_attributes(request) over the mapping `map`; meta[h] = None stands for
\* a header h that request.META does not hold.
parse_attributes(map, meta) ==
    parse_loop(map, meta, 1, [shib_attrs |-> <<>>, error |-> FALSE])

\* ------------------------------------------------------------------- state
VARIABLES
    users,                \* the User table: users[pk] is the row with primary key pk
    session,              \* session[p]: request.session of client p
    pc,                   \* pc[p]: where client p's current request stands
    request,              \* request[p]: the request object and the locals of its handlers
    create_unknown_user,  \* ShibbolethRemoteUserBackend.create_unknown_user
    has_user,             \* hasattr(request, 'user'): AuthenticationMiddleware is installed
    probe                 \* a mapping, a header set and parse_attributes' result for them

vars == <<users, session, pc, request, create_unknown_user, has_user, probe>>

\* request.session after flush(): no key at all
EmptySession == [logout |-> "absent", shib |-> <<>>, uid |-> 0]

\* A request before it is handled.  user: the pk of request.user, 0 for
\* AnonymousUser; remote, mail: two of the headers it arrived with; obj: the
\* backend's User instance, <<>> while there is none; log: what it did so far.
NoRequest ==
    [user |-> 0, remote |-> None, mail |-> None, shib_meta |-> <<>>,
     obj |-> <<>>, created |-> FALSE, outcome |-> "none", log |-> <<>>]

NoProbe ==
    [map |-> <<>>, meta |-> <<>>, called |-> FALSE,
     out |-> [shib_attrs |-> <<>>, error |-> FALSE]]

\* ------------------------------------------------------------ the user table
\* User.objects.get(username=username): the pk found, 0 for DoesNotExist
get(table, username) ==
    IF \E pk \in 1..Len(table) : table[pk].username = username
    THEN CHOOSE pk \in 1..Len(table) : table[pk].username = username
    ELSE 0

\* the instance the ORM builds from row pk
instance(table, pk) ==
    [pk |-> pk, username |-> table[pk].username, email |-> table[pk].email,
     unusable |-> table[pk].unusable, is_active |-> table[pk].is_active]

\* the row an instance is saved as (save() writes every column)
row(obj) ==
    [username |-> obj.username, email |-> obj.email,
     unusable |-> obj.unusable, is_active |-> obj.is_active]

\* the unique constraint on username, for writing `obj` as row pk
unique_ok(table, pk, obj) ==
    \A k \in 1..Len(table) : k # pk => table[k].username # obj.username

\* dict([(k, shib_meta[k]) for k in field_names if k in shib_meta])
shib_user_params(shib_meta) ==
    [k \in field_names \cap DOMAIN shib_meta |-> shib_meta[k]]

\* get_or_create's creation parameters: the lookup, then params.update(defaults)
create_params(username, defaults) ==
    [k \in {"username"} \cup DOMAIN defaults |->
        IF k \in DOMAIN defaults THEN defaults[k] ELSE username]

\* the row User.objects.create(**params) inserts: the model's defaults
\* (email '', password '', is_active True) under the given parameters
new_row(params) ==
    [username |-> params.username,
     email |-> IF "email" \in DOMAIN params THEN params.email ELSE "",
     unusable |-> FALSE,
     is_active |-> TRUE]

\* getattr(user, k) == v for every k, v of params
params_match(obj, params) == \A k \in DOMAIN params : obj[k] = params[k]

\* `len(params) > 0` and `not min([...])`: whether update_user_params writes
needs_update(obj, params) == DOMAIN params # {} /\ ~params_match(obj, params)

\* user.__dict__.update(**params)
dict_update(obj, params) ==
    [k \in DOMAIN obj |-> IF k \in DOMAIN params THEN params[k] ELSE obj[k]]

\* ModelBackend.user_can_authenticate
user_can_authenticate(obj) == obj.is_active

\* ------------------------------------------------------------- the middleware
\* logout_suppressed testing for the wrong value
logout_suppressed_if_false(s) == s.logout = "False"

\* logout_suppressed testing that the key is present, whatever its value
logout_suppressed_if_present(s) == s.logout # "absent"

\* request.session.get(LOGOUT_SESSION_KEY) is True
logout_suppressed(s) == s.logout = "True"

\* pop_logout that leaves the key in place
pop_logout_keeps(s) == s

\* request.session.pop(LOGOUT_SESSION_KEY, None)
pop_logout(s) == [s EXCEPT !.logout = "absent"]

\* same_user comparing with the header as sent, not cleaned
same_user_raw(table, uid, username) ==
    uid # 0 /\ table[uid].username = username

\* request.user.is_authenticated and get_username() == clean_username(username)
same_user(table, uid, username) ==
    uid # 0 /\ table[uid].username = clean_username(username)

\* self._remove_invalid_user(request): auth.logout(request) flushes the session
remove_invalid_user(s) == EmptySession

\* session_shib moved behind the `if error` check
session_shib_if_valid(s, parsed) ==
    IF parsed.error THEN s ELSE [s EXCEPT !.shib = <<parsed.shib_attrs>>]

\* request.session['shib'] = shib_meta, before `if error`
session_shib(s, parsed) == [s EXCEPT !.shib = <<parsed.shib_attrs>>]

ended(r, s, outcome) ==
    [request |-> [r EXCEPT !.outcome = outcome], session |-> s, pc |-> "done"]

\* process_request up to the call of auth.authenticate: what it leaves of the
\* request, of the session, and where the request stands then
process_request_head(table, s, with_user, META) ==
    LET r0 == [NoRequest EXCEPT !.user = IF with_user THEN s.uid ELSE 0,
                                !.remote = META[header],
                                !.mail = META["Shibboleth-mail"]]
    IN
    IF ~with_user THEN ended(r0, s, "ImproperlyConfigured")
    ELSE IF logout_suppressed(s) THEN ended(r0, s, "suppressed")
    ELSE
    LET s1 == pop_logout(s) IN
    IF META[header] = None THEN ended(r0, s1, "no_header")
    ELSE IF META[header] = "" THEN ended(r0, s1, "empty_header")
    ELSE IF same_user(table, s.uid, META[header])
         THEN ended(r0, s1, "already_authenticated")
    ELSE
    LET removed == s.uid # 0
        s2 == IF removed THEN remove_invalid_user(s1) ELSE s1
        r2 == [r0 EXCEPT !.user = 0,
                         !.log = IF removed THEN <<"remove_invalid_user">> ELSE <<>>]
        parsed == parse_attributes(SHIB_ATTRIBUTE_MAP, META)
        s3 == session_shib(s2, parsed)
        r3 == [r2 EXCEPT !.shib_meta = <<parsed.shib_attrs>>,
                         !.log = r2.log \o <<"parse_attributes", "session_shib">>]
    IN
    IF parsed.error THEN ended(r3, s3, "ShibbolethValidationError")
    ELSE [request |-> r3, session |-> s3, pc |-> "authenticate"]

\* ---------------------------------------------------------------- requests
\* The header sets a request arrives with: META[h] = None for a header that is
\* not sent.
RemoteValues == {None, ""} \cup {Lower(i) : i \in Names} \cup {Upper(i) : i \in Names}
EppnValues == {None} \cup {Lower(i) : i \in Names}
MailValues == {Mail(j) : j \in Mails}
BarCodeValues == {None, "b1"}

METAs ==
    { [h \in {header, "Shibboleth-eppn", "Shibboleth-mail", "Shibboleth-schoolBarCode"} |->
          CASE h = header -> r
            [] h = "Shibboleth-eppn" -> e
            [] h = "Shibboleth-mail" -> m
            [] OTHER -> b] :
      r \in RemoteValues, e \in EppnValues, m \in MailValues, b \in BarCodeValues }

\* the locals of authenticate for request p
username_of(p) == clean_username(request[p].remote)
params_of(p) == shib_user_params(request[p].shib_meta[1])

log_event(p, e) == [request EXCEPT ![p].log = @ \o <<e>>]

\* process_request with the hasattr(request, 'user') test moved behind the
\* handling of the logout key
process_request_checks_late(p, META) ==
    /\ pc[p] = "done"
    /\ LET res == IF logout_suppressed(session[p])
                  THEN process_request_head(users, session[p], TRUE, META)
                  ELSE process_request_head(users, pop_logout(session[p]), has_user, META)
       IN  /\ request' = [request EXCEPT ![p] = res.request]
           /\ session' = [session EXCEPT ![p] = res.session]
           /\ pc' = [pc EXCEPT ![p] = res.pc]
    /\ UNCHANGED <<users, create_unknown_user, has_user, probe>>

\* ShibbolethRemoteUserMiddleware.process_request, lines 16-69: the next
\* request of client p arrives with the headers META
process_request(p, META) ==
    /\ pc[p] = "done"
    /\ LET res == process_request_head(users, session[p], has_user, META)
       IN  /\ request' = [request EXCEPT ![p] = res.request]
           /\ session' = [session EXCEPT ![p] = res.session]
           /\ pc' = [pc EXCEPT ![p] = res.pc]
    /\ UNCHANGED <<users, create_unknown_user, has_user, probe>>

\* get_or_create_get without the `if created` test before handle_created_user
get_or_create_get_handles(p) ==
    /\ pc[p] = "authenticate"
    /\ create_unknown_user
    /\ LET pk == get(users, username_of(p))
       IN  IF pk # 0
           THEN /\ request' = [request EXCEPT ![p].obj = <<instance(users, pk)>>,
                                              ![p].created = FALSE,
                                              ![p].log = @ \o <<"get">>]
                /\ pc' = [pc EXCEPT ![p] = "handle_created_user"]
           ELSE /\ request' = log_event(p, "get")
                /\ pc' = [pc EXCEPT ![p] = "create"]
    /\ UNCHANGED <<users, session, create_unknown_user, has_user, probe>>

\* setup_user with create_unknown_user: get_or_create's first get()
get_or_create_get(p) ==
    /\ pc[p] = "authenticate"
    /\ create_unknown_user
    /\ LET pk == get(users, username_of(p))
       IN  IF pk # 0
           THEN /\ request' = [request EXCEPT ![p].obj = <<instance(users, pk)>>,
                                              ![p].created = FALSE,
                                              ![p].log = @ \o <<"get">>]
                /\ pc' = [pc EXCEPT ![p] = "update_user_params"]
           ELSE /\ request' = log_event(p, "get")
                /\ pc' = [pc EXCEPT ![p] = "create"]
    /\ UNCHANGED <<users, session, create_unknown_user, has_user, probe>>

\* get_or_create after DoesNotExist: create(**params) and, on IntegrityError,
\* the second get(), which raises the IntegrityError when it finds nothing
get_or_create_create(p) ==
    /\ pc[p] = "create"
    /\ LET params == create_params(username_of(p), params_of(p))
           pk == Len(users) + 1
       IN  IF get(users, params.username) = 0
           THEN /\ users' = Append(users, new_row(params))
                /\ request' = [request EXCEPT ![p].obj = <<instance(users', pk)>>,
                                              ![p].created = TRUE,
                                              ![p].log = @ \o <<"create">>]
                /\ pc' = [pc EXCEPT ![p] = "handle_created_user"]
           ELSE LET found == get(users, username_of(p))
                IN  /\ users' = users
                    /\ IF found # 0
                       THEN /\ request' = [request EXCEPT
                                               ![p].obj = <<instance(users, found)>>,
                                               ![p].created = FALSE,
                                               ![p].log = @ \o <<"get">>]
                            /\ pc' = [pc EXCEPT ![p] = "update_user_params"]
                       ELSE /\ request' = [request EXCEPT
                                               ![p].outcome = "IntegrityError",
                                               ![p].log = @ \o <<"get">>]
                            /\ pc' = [pc EXCEPT ![p] = "done"]
    /\ UNCHANGED <<session, create_unknown_user, has_user, probe>>

\* setup_user_get without the `except DoesNotExist` clause
setup_user_get_raises(p) ==
    /\ pc[p] = "authenticate"
    /\ ~create_unknown_user
    /\ LET pk == get(users, username_of(p))
       IN  IF pk # 0
           THEN /\ request' = [request EXCEPT ![p].obj = <<instance(users, pk)>>,
                                              ![p].log = @ \o <<"get">>]
                /\ pc' = [pc EXCEPT ![p] = "update_user_params"]
           ELSE /\ request' = [request EXCEPT ![p].outcome = "DoesNotExist",
                                              ![p].log = @ \o <<"get">>]
                /\ pc' = [pc EXCEPT ![p] = "done"]
    /\ UNCHANGED <<users, session, create_unknown_user, has_user, probe>>

\* setup_user without create_unknown_user: User.objects.get, None when missing
setup_user_get(p) ==
    /\ pc[p] = "authenticate"
    /\ ~create_unknown_user
    /\ LET pk == get(users, username_of(p))
       IN  IF pk # 0
           THEN /\ request' = [request EXCEPT ![p].obj = <<instance(users, pk)>>,
                                              ![p].log = @ \o <<"get">>]
                /\ pc' = [pc EXCEPT ![p] = "update_user_params"]
           ELSE /\ request' = [request EXCEPT ![p].outcome = "unknown_user",
                                              ![p].log = @ \o <<"get">>]
                /\ pc' = [pc EXCEPT ![p] = "done"]
    /\ UNCHANGED <<users, session, create_unknown_user, has_user, probe>>

\* handle_created_user: set_unusable_password(), save(), configure_user()
handle_created_user(p) ==
    /\ pc[p] = "handle_created_user"
    /\ LET obj == [request[p].obj[1] EXCEPT !.unusable = TRUE]
       IN  /\ users' = [users EXCEPT ![obj.pk] = row(obj)]
           /\ request' = [request EXCEPT ![p].obj = <<obj>>,
                                         ![p].log = @ \o <<"set_unusable_password", "save",
                                                           "configure_user">>]
    /\ pc' = [pc EXCEPT ![p] = "update_user_params"]
    /\ UNCHANGED <<session, create_unknown_user, has_user, probe>>

\* update_user_params, then authenticate's user_can_authenticate
update_user_params(p) ==
    /\ pc[p] = "update_user_params"
    /\ LET old == request[p].obj[1]
           params == params_of(p)
           obj == dict_update(old, params)
       IN  IF ~needs_update(old, params)
           THEN /\ users' = users
                /\ IF user_can_authenticate(old)
                   THEN /\ request' = request
                        /\ pc' = [pc EXCEPT ![p] = "login"]
                   ELSE /\ request' = [request EXCEPT ![p].outcome = "inactive"]
                        /\ pc' = [pc EXCEPT ![p] = "done"]
           ELSE IF ~unique_ok(users, obj.pk, obj)
           THEN /\ users' = users
                /\ request' = [request EXCEPT ![p].obj = <<obj>>,
                                              ![p].outcome = "IntegrityError",
                                              ![p].log = @ \o <<"save_failed">>]
                /\ pc' = [pc EXCEPT ![p] = "done"]
           ELSE /\ users' = [users EXCEPT ![obj.pk] = row(obj)]
                /\ IF user_can_authenticate(obj)
                   THEN /\ request' = [request EXCEPT ![p].obj = <<obj>>,
                                                  ![p].log = @ \o <<"save">>]
                        /\ pc' = [pc EXCEPT ![p] = "login"]
                   ELSE /\ request' = [request EXCEPT ![p].obj = <<obj>>,
                                                  ![p].outcome = "inactive",
                                                  ![p].log = @ \o <<"save">>]
                        /\ pc' = [pc EXCEPT ![p] = "done"]
    /\ UNCHANGED <<session, create_unknown_user, has_user, probe>>

\* auth.login: flush() when the session holds another user's key, then the
\* session is bound to the user
login_session(s, pk) ==
    [(IF s.uid # 0 /\ s.uid # pk THEN EmptySession ELSE s) EXCEPT !.uid = pk]

\* login followed by setup_session at once, make_profile left out
login_skips_profile(p) ==
    /\ pc[p] = "login"
    /\ LET pk == request[p].obj[1].pk
       IN  /\ request' = [request EXCEPT ![p].user = pk,
                                         ![p].log = @ \o <<"request_user", "login">>]
           /\ session' = [session EXCEPT ![p] = login_session(@, pk)]
    /\ pc' = [pc EXCEPT ![p] = "setup_session"]
    /\ UNCHANGED <<users, create_unknown_user, has_user, probe>>

\* process_request lines 74-78: request.user = user; auth.login(request, user)
login(p) ==
    /\ pc[p] = "login"
    /\ LET pk == request[p].obj[1].pk
       IN  /\ request' = [request EXCEPT ![p].user = pk,
                                         ![p].log = @ \o <<"request_user", "login">>]
           /\ session' = [session EXCEPT ![p] = login_session(@, pk)]
    /\ pc' = [pc EXCEPT ![p] = "make_profile"]
    /\ UNCHANGED <<users, create_unknown_user, has_user, probe>>

\* self.make_profile(user, shib_meta): does nothing by default
make_profile(p) ==
    /\ pc[p] = "make_profile"
    /\ request' = log_event(p, "make_profile")
    /\ pc' = [pc EXCEPT ![p] = "setup_session"]
    /\ UNCHANGED <<users, session, create_unknown_user, has_user, probe>>

\* self.setup_session(request): does nothing by default; process_request returns
setup_session(p) ==
    /\ pc[p] = "setup_session"
    /\ request' = [request EXCEPT ![p].log = @ \o <<"setup_session">>,
                                  ![p].outcome = "logged_in"]
    /\ pc' = [pc EXCEPT ![p] = "done"]
    /\ UNCHANGED <<users, session, create_unknown_user, has_user, probe>>

\* ------------------------------------------------------------------ views
\* The logout view: auth.logout(request) flushes the session, then
\* request.session[LOGOUT_SESSION_KEY] = True
logout_view(p) ==
    /\ pc[p] = "done"
    /\ session' = [session EXCEPT ![p] = [EmptySession EXCEPT !.logout = "True"]]
    /\ request' = [request EXCEPT ![p] = NoRequest]
    /\ UNCHANGED <<users, pc, create_unknown_user, has_user, probe>>

\* Application code clears the key (the login view) or leaves a value other
\* than True under it
write_logout_key(p, v) ==
    /\ pc[p] = "done"
    /\ session[p].logout # v
    /\ session' = [session EXCEPT ![p].logout = v]
    /\ request' = [request EXCEPT ![p] = NoRequest]
    /\ UNCHANGED <<users, pc, create_unknown_user, has_user, probe>>

\* ------------------------------------------------------------ specifications
TypeOK ==
    /\ pc \in [Procs -> {"done", "authenticate", "create", "handle_created_user",
                         "update_user_params", "login", "make_profile", "setup_session"}]
    /\ create_unknown_user \in BOOLEAN

\* The User table a deployment starts with: empty, or holding an account made
\* outside this backend (usable password), active or deactivated.
InitialUsers ==
    {<<>>} \cup
    { <<[username |-> Lower(1), email |-> Mail(1), unusable |-> FALSE, is_active |-> a]>> :
        a \in BOOLEAN }

Init ==
    /\ users \in InitialUsers
    /\ session = [p \in Procs |-> EmptySession]
    /\ pc = [p \in Procs |-> "done"]
    /\ request = [p \in Procs |-> NoRequest]
    /\ create_unknown_user \in BOOLEAN
    /\ has_user \in BOOLEAN
    /\ probe = NoProbe

Step(p) ==
    \/ \E META \in METAs : process_request(p, META)
    \/ get_or_create_get(p)
    \/ get_or_create_create(p)
    \/ setup_user_get(p)
    \/ handle_created_user(p)
    \/ update_user_params(p)
    \/ login(p)
    \/ make_profile(p)
    \/ setup_session(p)
    \/ logout_view(p)
    \/ \E v \in {"absent", "False"} : write_logout_key(p, v)

\* One client, request after request.
Next == Step(1)

Spec == Init /\ [][Next]_vars

\* Every client sends one request; the requests run concurrently.
first_request(p) ==
    /\ request[p].outcome = "none"
    /\ \E META \in METAs : process_request(p, META)

NextConc ==
    \E p \in Procs :
        \/ first_request(p)
        \/ get_or_create_get(p)
        \/ get_or_create_create(p)
        \/ setup_user_get(p)
        \/ handle_created_user(p)
        \/ update_user_params(p)
        \/ login(p)
        \/ make_profile(p)
        \/ setup_session(p)

InitConc ==
    /\ users = <<>>
    /\ session = [p \in Procs |-> EmptySession]
    /\ pc = [p \in Procs |-> "done"]
    /\ request = [p \in Procs |-> NoRequest]
    /\ create_unknown_user \in BOOLEAN
    /\ has_user = TRUE
    /\ probe = NoProbe

SpecConc == InitConc /\ [][NextConc]_vars

\* The same headers are sent by one client after the other: client p + 1
\* sends them once the request of client p has ended.
InitTwice ==
    /\ users = <<>>
    /\ session = [p \in Procs |-> EmptySession]
    /\ pc = [p \in Procs |-> "done"]
    /\ request = [p \in Procs |-> NoRequest]
    /\ create_unknown_user = TRUE
    /\ has_user = TRUE
    /\ \E META \in METAs : probe = [NoProbe EXCEPT !.meta = META]

next_request(p) ==
    /\ request[p].outcome = "none"
    /\ IF p = 1 THEN TRUE
       ELSE pc[p - 1] = "done" /\ request[p - 1].outcome # "none"
    /\ process_request(p, probe.meta)

NextTwice ==
    \E p \in Procs :
        \/ next_request(p)
        \/ get_or_create_get(p)
        \/ get_or_create_create(p)
        \/ handle_created_user(p)
        \/ update_user_params(p)
        \/ login(p)
        \/ make_profile(p)
        \/ setup_session(p)

SpecTwice == InitTwice /\ [][NextTwice]_vars

\* ------------------------------------------- parse_attributes on its own
\* Attribute mappings of up to MaxMapLen entries over the headers h1..hN (a
\* dict: no header twice) and header sets over them.
ProbeHeaders == {"h" \o ToString(i) : i \in 1..MaxMapLen}
ProbeEntries == [header : ProbeHeaders, required : BOOLEAN, name : {"n1", "n2"}]
ProbeMaps ==
    { m \in UNION { [1..n -> ProbeEntries] : n \in 0..MaxMapLen } :
        \A i, j \in DOMAIN m : i # j => m[i].header # m[j].header }
ProbeMetas == [ProbeHeaders -> {None, "", "v"}]

InitParse ==
    /\ users = <<>>
    /\ session = [p \in Procs |-> EmptySession]
    /\ pc = [p \in Procs |-> "done"]
    /\ request = [p \in Procs |-> NoRequest]
    /\ create_unknown_user = TRUE
    /\ has_user = TRUE
    /\ \E m \in ProbeMaps, h \in ProbeMetas :
          probe = [NoProbe EXCEPT !.map = m, !.meta = h]

call_parse_attributes ==
    /\ ~probe.called
    /\ probe' = [probe EXCEPT !.called = TRUE,
                              !.out = parse_attributes(probe.map, probe.meta)]
    /\ UNCHANGED <<users, session, pc, request, create_unknown_user, has_user>>

NextParse == call_parse_attributes

SpecParse == InitParse /\ [][NextParse]_vars

\* ------------------------------------------------------------------ claims
\* what a request has done to the user table
StoreEvents == {"get", "create", "save", "save_failed"}
touched_store(r) == \E i \in DOMAIN r.log : r.log[i] \in StoreEvents
logged(r, e) == \E i \in DOMAIN r.log : r.log[i] = e

\* a step in which client p's next request is handled (the views leave
\* outcome "none")
arrives(p) == pc[p] = "done" /\ request'[p].outcome # "none"

\* C1: while the session's logout flag is True, a request - whatever headers
\* it carries - returns at once: it leaves the request identity, the session
\* and the user table as they were; and every request that goes further
\* (towards a login) runs on a session whose flag is not True.
C1_Step ==
    \A p \in Procs :
        (arrives(p) /\ session[p].logout = "True") =>
            /\ pc'[p] = "done"
            /\ session'[p] = session[p]
            /\ request'[p].user = session[p].uid
            /\ request'[p].log = <<>>
            /\ users' = users
C1_LogoutSuppression ==
    /\ [](\A p \in Procs : pc[p] # "done" => session[p].logout # "True")
    /\ [][C1_Step]_vars

\* a request with a valid remote user and attributes was suppressed
C1_Witness ==
    /\ request[1].outcome = "suppressed"
    /\ request[1].remote = Lower(1)
    /\ request[1].mail = Mail(1)
    /\ session[1].logout = "True"

\* C4: parse_attributes reports a validation failure exactly when some entry
\* marked required has its header missing or empty, wherever that entry
\* stands in the mapping and whatever the optional entries' headers hold.
C4_ValidationFlag ==
    probe.called =>
        (probe.out.error <=>
            \E i \in DOMAIN probe.map :
                /\ probe.map[i].required
                /\ probe.meta[probe.map[i].header] \in {None, ""})

\* a required entry with an empty header is followed by a required entry
\* whose header has a value, and the failure is still reported
C4_Witness ==
    /\ probe.called
    /\ Len(probe.map) = 2
    /\ probe.map[1].required /\ probe.meta[probe.map[1].header] = ""
    /\ probe.map[2].required /\ probe.meta[probe.map[2].header] = "v"
    /\ probe.out.error

\* C5: the keys of the attribute map parse_attributes returns are the
\* canonical names of the mapping, for every header set.
C5_KeySet ==
    probe.called =>
        DOMAIN probe.out.shib_attrs = {probe.map[i].name : i \in DOMAIN probe.map}

\* no header at all is sent, and both names of the mapping are in the result
C5_Witness ==
    /\ probe.called
    /\ \A h \in ProbeHeaders : probe.meta[h] = None
    /\ Len(probe.map) = 2
    /\ probe.map[1].name # probe.map[2].name
    /\ Cardinality(DOMAIN probe.out.shib_attrs) = 2

\* the canonical names of the configured mapping
MapNames == {SHIB_ATTRIBUTE_MAP[i].name : i \in DOMAIN SHIB_ATTRIBUTE_MAP}

\* C7: a request that got as far as parsing its attributes and lacks a
\* required one ends with ShibbolethValidationError: the whole parsed map is
\* in the session under 'shib', nobody is logged in, request.user is
\* anonymous, and the user table was neither read nor written.
C7_State ==
    \A p \in Procs :
        ( /\ request[p].shib_meta # <<>>
          /\ \E i \in DOMAIN SHIB_ATTRIBUTE_MAP :
                /\ SHIB_ATTRIBUTE_MAP[i].required
                /\ request[p].shib_meta[1][SHIB_ATTRIBUTE_MAP[i].name] \in {None, ""} )
        => /\ pc[p] = "done"
           /\ request[p].outcome = "ShibbolethValidationError"
           /\ DOMAIN request[p].shib_meta[1] = MapNames
           /\ request[p].shib_meta[1]["email"] = request[p].mail
           /\ session[p].shib = request[p].shib_meta
           /\ session[p].uid = 0
           /\ request[p].user = 0
           /\ request[p].obj = <<>>
           /\ ~touched_store(request[p])
           /\ ~logged(request[p], "login")
C7_Step ==
    \A p \in Procs :
        (arrives(p) /\ request'[p].outcome = "ShibbolethValidationError") => users' = users
C7_ValidationFailure == [](C7_State) /\ [][C7_Step]_vars

\* the eppn header is missing: the error is raised and the map, with no
\* username in it, is in the session
C7_Witness ==
    /\ request[1].outcome = "ShibbolethValidationError"
    /\ request[1].remote = Lower(1)
    /\ request[1].shib_meta[1]["username"] = None
    /\ request[1].shib_meta[1]["email"] = Mail(1)
    /\ session[1].shib = request[1].shib_meta
    /\ users # <<>>

\* C8 as claimed: without logout suppression, a request whose remote user
\* header is missing or empty ends anonymous, with the session as it was, no
\* access to the user table and no error.
C8_OriginalStep ==
    \A p \in Procs :
        ( /\ arrives(p) /\ has_user
          /\ session[p].logout # "True"
          /\ request'[p].remote \in {None, ""} )
        => /\ pc'[p] = "done"
           /\ request'[p].outcome \in {"no_header", "empty_header"}
           /\ request'[p].user = 0
           /\ session'[p] = session[p]
           /\ request'[p].log = <<>>
           /\ users' = users
C8_Step ==
    \A p \in Procs :
        ( /\ arrives(p) /\ has_user
          /\ session[p].logout # "True"
          /\ request'[p].remote \in {None, ""} )
        => /\ pc'[p] = "done"
           /\ request'[p].outcome \in {"no_header", "empty_header"}
           /\ request'[p].user = session[p].uid
           /\ session'[p] = [session[p] EXCEPT !.logout = "absent"]
           /\ request'[p].log = <<>>
           /\ users' = users
C9_Step ==
    \A p \in Procs :
        ( /\ arrives(p) /\ has_user
          /\ session[p].logout # "True"
          /\ request'[p].remote \notin {None, ""}
          /\ session[p].uid # 0
          /\ users[session[p].uid].username = clean_username(request'[p].remote) )
        => /\ pc'[p] = "done"
           /\ request'[p].outcome = "already_authenticated"
           /\ request'[p].user = session[p].uid
           /\ request'[p].shib_meta = <<>>
           /\ request'[p].log = <<>>
           /\ session'[p].shib = session[p].shib
           /\ session'[p].uid = session[p].uid
           /\ users' = users
C9_FastPath == [][C9_Step]_vars

\* the fast path was taken by a request whose mail header differs from the
\* stored address and whose remote user differs from the stored name in case
C9_Witness ==
    /\ request[1].outcome = "already_authenticated"
    /\ request[1].user # 0
    /\ request[1].remote = Upper(1)
    /\ users[request[1].user].username = Lower(1)
    /\ request[1].mail \in MailValues
    /\ request[1].mail # users[request[1].user].email
    /\ session[1].shib # <<>>
    /\ session[1].shib[1]["email"] # request[1].mail

\* request p called auth.authenticate; the call has returned or raised
called(p) ==
    request[p].shib_meta # <<>> /\ request[p].outcome # "ShibbolethValidationError"
returned(p) == pc[p] \in {"login", "make_profile", "setup_session", "done"}
\* the pk authenticate returned, 0 for None
result(p) ==
    IF request[p].obj = <<>> \/ request[p].outcome \in {"inactive", "unknown_user"}
    THEN 0 ELSE request[p].obj[1].pk
rows_named(n) == {k \in 1..Len(users) : users[k].username = n}

\* C2 as claimed: when all clients resolve the same user name, unseen before,
\* with creation enabled, then once every call has ended there is exactly one
\* row with that name, exactly one call saw created = True, and every call
\* returned that row.
C2_Original ==
    ( /\ create_unknown_user
      /\ \A p \in Procs : called(p) /\ returned(p)
      /\ \A p \in Procs : username_of(p) = username_of(1) )
    => /\ Cardinality(rows_named(username_of(1))) = 1
       /\ Cardinality({p \in Procs : request[p].created}) = 1
       /\ \A p \in Procs :
             /\ request[p].outcome # "IntegrityError"
             /\ result(p) \in rows_named(username_of(1))

\* C3 as claimed: authenticate called twice in sequence with the same user
\* name and field values, creation enabled, returns the same user both
\* times, and afterwards the table holds exactly one row of that name, which
\* the second call did not create.
C3_Original ==
    (\A p \in Procs : called(p) /\ pc[p] = "done")
    => /\ \A p \in Procs : request[p].outcome # "IntegrityError"
       /\ \A p \in Procs : result(p) = result(1)
       /\ Cardinality(rows_named(username_of(1))) = 1
       /\ \A p \in Procs : p > 1 => ~request[p].created

\* the field values update_user_params is given for request p
field_values(p) ==
    [k \in {"username", "email"} \cap DOMAIN request[p].shib_meta[1] |->
        request[p].shib_meta[1][k]]

\* C6 as claimed: update_user_params writes nothing and leaves the user as it
\* is when every given value equals the user's; otherwise it applies all
\* given values and one write is persisted, after which the stored row holds
\* every given value.
C6_OriginalStep ==
    \A p \in Procs :
        (pc[p] = "update_user_params" /\ pc'[p] # "update_user_params") =>
            LET old == request[p].obj[1]
                fv == field_values(p)
            IN  IF \A k \in DOMAIN fv : old[k] = fv[k]
                THEN /\ users' = users
                     /\ request'[p].obj = request[p].obj
                     /\ request'[p].log = request[p].log
                ELSE /\ request'[p].log = request[p].log \o <<"save">>
                     /\ \A k \in DOMAIN fv : users'[old.pk][k] = fv[k]
                     /\ users'[old.pk].unusable = old.unusable
                     /\ users'[old.pk].is_active = old.is_active
                     /\ \A j \in 1..Len(users) : j # old.pk => users'[j] = users[j]
                     /\ Len(users') = Len(users)
C6_Original == [][C6_OriginalStep]_vars

\* the first get() of request p found no row (get_or_create went on to create)
missed(p) ==
    \/ logged(request[p], "create")
    \/ Cardinality({i \in DOMAIN request[p].log : request[p].log[i] = "get"}) = 2

\* C10 as claimed: a request that is not suppressed, names a remote user with
\* no row yet and carries every required attribute, creation enabled, ends
\* logged in as a new row whose username is the cleaned remote user and whose
\* password is unusable - the one row of that name.
C10_Original ==
    \A p \in Procs :
        (create_unknown_user /\ called(p) /\ missed(p) /\ pc[p] = "done") =>
            /\ request[p].outcome = "logged_in"
            /\ request[p].created
            /\ rows_named(username_of(p)) = {request[p].obj[1].pk}
            /\ users[request[p].obj[1].pk].unusable
            /\ request[p].user = request[p].obj[1].pk
            /\ session[p].uid = request[p].obj[1].pk

\* the events of a request that established a login or ran a hook
LoginEvents == {"request_user", "login", "make_profile", "setup_session"}
\* the events of a request that wrote to the user table
WriteEvents == {"create", "save", "set_unusable_password", "configure_user"}
did_any(r, events) == \E i \in DOMAIN r.log : r.log[i] \in events

\* C11: with create_unknown_user = False, resolving a user name that has no
\* row returns None without raising: the lookup step leaves the user table
\* as it is and ends the request, which is then anonymous - request.user is
\* AnonymousUser, the session holds no login, no row was created or saved and
\* neither hook ran.
C11_Step ==
    \A p \in Procs :
        ( /\ pc[p] = "authenticate" /\ pc'[p] # "authenticate"
          /\ ~create_unknown_user
          /\ get(users, username_of(p)) = 0 )
        => /\ users' = users
           /\ pc'[p] = "done"
           /\ request'[p].outcome = "unknown_user"
           /\ request'[p].obj = <<>>
           /\ session'[p] = session[p]
C11_State ==
    \A p \in Procs :
        request[p].outcome = "unknown_user" =>
            /\ pc[p] = "done"
            /\ ~create_unknown_user
            /\ request[p].user = 0
            /\ session[p].uid = 0
            /\ request[p].obj = <<>>
            /\ ~did_any(request[p], LoginEvents)
            /\ ~did_any(request[p], WriteEvents)
C11_ResolutionMiss == [](C11_State) /\ [][C11_Step]_vars

\* a session logged in as the one row sends another, unknown remote user
\* with every attribute present: the request ended anonymous, the table
\* still holds the one row
C11_Witness ==
    /\ request[1].outcome = "unknown_user"
    /\ request[1].remote = Lower(2)
    /\ logged(request[1], "remove_invalid_user")
    /\ Len(users) = 1
    /\ users[1].username = Lower(1)

\* C12 as claimed: when the user authenticate resolved is not eligible
\* (is_active is False), update_user_params has reconciled its fields - the
\* stored row holds every given value - and authenticate returns None without
\* any exception: the request ends anonymous, nobody is logged in and no
\* hook has run.
C12_OriginalStep ==
    \A p \in Procs :
        ( /\ pc[p] = "update_user_params" /\ pc'[p] # "update_user_params"
          /\ ~request[p].obj[1].is_active )
        => LET pk == request[p].obj[1].pk
               fv == field_values(p)
           IN  /\ pc'[p] = "done"
               /\ request'[p].outcome = "inactive"
               /\ \A k \in DOMAIN fv : users'[pk][k] = fv[k]
               /\ request'[p].user = 0
               /\ session'[p].uid = 0
               /\ ~did_any(request'[p], LoginEvents)
C12_Original == [][C12_OriginalStep]_vars

\* how often request r did e
times(r, e) == Cardinality({i \in DOMAIN r.log : r.log[i] = e})

\* C13: set_unusable_password and configure_user run exactly once for a row,
\* in the request that created it: a step that sets a row's marker or runs
\* either of the two is the handle_created_user of the request that has just
\* inserted that row, and it runs both; a request that created a row runs
\* them once; a request that found its row, or one handled with
\* create_unknown_user = False, never runs them, and the marker of every row
\* it meets stays as stored.
creates_here(p) ==
    /\ pc[p] = "handle_created_user"
    /\ create_unknown_user
    /\ request[p].created
    /\ request[p].obj[1].pk = Len(users)
    /\ request[p].log[Len(request[p].log)] = "create"
    /\ ~users[Len(users)].unusable
    /\ users'[Len(users)].unusable
    /\ \A k \in 1..(Len(users) - 1) : users'[k] = users[k]
    /\ times(request'[p], "set_unusable_password") = 1
    /\ times(request'[p], "configure_user") = 1
C13_Step ==
    /\ (\E k \in 1..Len(users) : users'[k].unusable # users[k].unusable)
          => \E p \in Procs : pc'[p] # pc[p] /\ creates_here(p)
    /\ \A p \in Procs :
          ( \/ times(request'[p], "set_unusable_password") > times(request[p], "set_unusable_password")
            \/ times(request'[p], "configure_user") > times(request[p], "configure_user") )
          => creates_here(p)
C13_State ==
    \A p \in Procs :
        /\ request[p].created =>
              /\ create_unknown_user
              /\ logged(request[p], "create")
              /\ \/ pc[p] = "handle_created_user"
                 \/ /\ times(request[p], "set_unusable_password") = 1
                    /\ times(request[p], "configure_user") = 1
        /\ (~request[p].created \/ ~create_unknown_user) =>
              /\ times(request[p], "set_unusable_password") = 0
              /\ times(request[p], "configure_user") = 0
C13_CreationOnly == [](C13_State) /\ [][C13_Step]_vars

\* a request has logged in as a row it found, whose password is still
\* usable, while the row an earlier request created is marked
C13_Witness ==
    /\ request[1].outcome = "logged_in"
    /\ ~request[1].created
    /\ ~users[request[1].obj[1].pk].unusable
    /\ \E k \in 1..Len(users) : users[k].unusable

\* C14 as claimed: a request of a session logged in as a user whose name is
\* not the cleaned remote user clears that identity before it parses any
\* attribute or resolves a user; and every request that is not suppressed
\* and carries a non-empty remote user ends with request.user anonymous or
\* a user whose username is the cleaned remote user.
C14_OriginalStep ==
    \A p \in Procs :
        ( /\ arrives(p) /\ has_user
          /\ session[p].logout # "True"
          /\ request'[p].remote \notin {None, ""}
          /\ session[p].uid # 0
          /\ users[session[p].uid].username # clean_username(request'[p].remote) )
        => /\ request'[p].log[1] = "remove_invalid_user"
           /\ request'[p].user = 0
           /\ session'[p].uid = 0
           /\ request'[p].obj = <<>>
           /\ users' = users
C14_OriginalState ==
    \A p \in Procs :
        ( /\ pc[p] = "done" /\ has_user
          /\ request[p].outcome \notin {"none", "suppressed"}
          /\ request[p].remote \notin {None, ""} )
        => \/ request[p].user = 0
           \/ users[request[p].user].username = clean_username(request[p].remote)
C14_Original == [](C14_OriginalState) /\ [][C14_OriginalStep]_vars

\* the order process_request prescribes for a request that logs in
LoginOrder == <<"request_user", "login", "make_profile", "setup_session">>
is_login_event(e) == e \in LoginEvents
login_events(r) == SelectSeq(r.log, is_login_event)
is_prefix(s, t) == Len(s) <= Len(t) /\ \A i \in 1..Len(s) : s[i] = t[i]

\* C15: within a request the events request.user = user, auth.login,
\* make_profile, setup_session happen in this order and at most once each; a
\* hook has run only in a request that attached a user and logged it in; a
\* request that ended logged in ran all four, and a request that ended any
\* other way ran none of them.
C15_HookOrdering ==
    \A p \in Procs :
        /\ is_prefix(login_events(request[p]), LoginOrder)
        /\ did_any(request[p], {"make_profile", "setup_session"}) =>
              /\ request[p].user # 0
              /\ request[p].user = request[p].obj[1].pk
              /\ session[p].uid = request[p].user
        /\ (pc[p] = "done" /\ request[p].outcome = "logged_in")
              => login_events(request[p]) = LoginOrder
        /\ (pc[p] = "done" /\ request[p].outcome # "logged_in")
              => login_events(request[p]) = <<>>
        /\ pc[p] = "make_profile" => login_events(request[p]) = SubSeq(LoginOrder, 1, 2)
        /\ pc[p] = "setup_session" => login_events(request[p]) = SubSeq(LoginOrder, 1, 3)

\* a request that replaced another user's login has run both hooks, in order
C15_Witness ==
    /\ pc[1] = "done"
    /\ request[1].outcome = "logged_in"
    /\ logged(request[1], "remove_invalid_user")
    /\ login_events(request[1]) = LoginOrder

\* the ways a request ends after the precondition and suppression checks
LaterPaths ==
    {"no_header", "empty_header", "already_authenticated", "ShibbolethValidationError",
     "unknown_user", "inactive", "IntegrityError", "logged_in"}

\* C16: a request that has request.user and meets a logout flag that is
\* absent or not True leaves the session without the key, at once and on
\* every path it takes afterwards; popping the key from a session that does
\* not hold it changes nothing, and popping twice is popping once.
C16_Step ==
    \A p \in Procs :
        (arrives(p) /\ has_user /\ session[p].logout # "True") =>
            /\ session'[p].logout = "absent"
            /\ request'[p].outcome \in LaterPaths \cup {"none"}
            /\ session[p].logout = "absent" => pop_logout(session[p]) = session[p]
            /\ pop_logout(pop_logout(session[p])) = pop_logout(session[p])
C16_State ==
    \A p \in Procs :
        /\ pc[p] # "done" => session[p].logout = "absent"
        /\ (pc[p] = "done" /\ request[p].outcome \in LaterPaths)
              => session[p].logout = "absent"
C16_StaleSuppressionCleanup == [](C16_State) /\ [][C16_Step]_vars

\* a request took the fast path of a logged-in session, and the session
\* holds no logout key
C16_Witness ==
    /\ pc[1] = "done"
    /\ request[1].outcome = "already_authenticated"
    /\ session[1].uid # 0
    /\ session[1].logout = "absent"

\* the header set `meta` with every missing header sent as the empty string
sent_empty(meta) == [h \in DOMAIN meta |-> IF meta[h] = None THEN "" ELSE meta[h]]

\* what of process_request's result does not depend on how the model names
\* the path taken
effect(res) == [user |-> res.request.user, session |-> res.session, pc |-> res.pc]

\* C17 as claimed: parse_attributes returns the same attribute map and the
\* same error flag when a header is missing as when it is sent empty; and
\* process_request does the same for a missing as for an empty remote user
\* header.
C17_Original ==
    /\ probe.called =>
          parse_attributes(probe.map, sent_empty(probe.meta)) = probe.out
    /\ \A META \in METAs, logout \in {"absent", "False", "True"}, with_user \in BOOLEAN :
          LET s == [EmptySession EXCEPT !.logout = logout]
              missing == [META EXCEPT ![header] = None]
              empty == [META EXCEPT ![header] = ""]
          IN  effect(process_request_head(users, s, with_user, missing))
                = effect(process_request_head(users, s, with_user, empty))

\* the error flag alone does not tell a missing header from an empty one
C17_SameFlag ==
    probe.called =>
        parse_attributes(probe.map, sent_empty(probe.meta)).error = probe.out.error

\* C18: a request without request.user raises ImproperlyConfigured before
\* anything else: the session - its logout key, True or not, and its 'shib'
\* entry - is as it was, nothing was parsed and the user table was not
\* accessed.
C18_Step ==
    \A p \in Procs :
        (arrives(p) /\ ~has_user) =>
            /\ pc'[p] = "done"
            /\ request'[p].outcome = "ImproperlyConfigured"
            /\ session'[p] = session[p]
            /\ request'[p].shib_meta = <<>>
            /\ request'[p].obj = <<>>
            /\ request'[p].log = <<>>
            /\ users' = users
C18_State ==
    ~has_user =>
        \A p \in Procs :
            /\ pc[p] = "done"
            /\ request[p].outcome \in {"none", "ImproperlyConfigured"}
            /\ session[p].shib = <<>>
            /\ session[p].uid = 0
C18_PreconditionFirst == [](C18_State) /\ [][C18_Step]_vars

\* the error was raised for a request with a remote user and attributes,
\* on a session whose logout flag is True, and the flag is still there
C18_Witness ==
    /\ request[1].outcome = "ImproperlyConfigured"
    /\ request[1].remote = Lower(1)
    /\ request[1].mail = Mail(1)
    /\ session[1].logout = "True"

\* the same on a session whose stale flag would otherwise be popped
C18_WitnessStale ==
    /\ request[1].outcome = "ImproperlyConfigured"
    /\ session[1].logout = "False"

\* C19 as claimed: the user authenticate returns has the cleaned remote_user
\* as its username; a row is created under the username it was looked up
\* by; and no step changes the username of a row - also when the attribute
\* map carries a 'username' that differs from the remote user.
C19_OriginalState ==
    \A p \in Procs :
        (called(p) /\ returned(p) /\ result(p) # 0) =>
            /\ request[p].obj[1].username = username_of(p)
            /\ users[result(p)].username = username_of(p)
C19_OriginalStep ==
    /\ \A k \in 1..Len(users) : users'[k].username = users[k].username
    /\ \A p \in Procs :
          (pc[p] = "create" /\ Len(users') > Len(users)) =>
              users'[Len(users')].username = username_of(p)
C19_Original == [](C19_OriginalState) /\ [][C19_OriginalStep]_vars

\* request p resolves the user its attribute map names
names_itself(p) == request[p].shib_meta[1]["username"] = username_of(p)

\* C20 as claimed, for resolutions whose attribute map names the user of the
\* header: when concurrent requests have resolved the same user name,
\* creation enabled, and all have ended, the row the backend created has its
\* password marked unusable.
C20_Original ==
    ( /\ create_unknown_user
      /\ \A p \in Procs : called(p) /\ pc[p] = "done" /\ names_itself(p)
      /\ \A p \in Procs : username_of(p) = username_of(1) )
    => \A k \in rows_named(username_of(1)) : users[k].unusable

====
